---- MODULE Spec2Model ----
(***************************************************************************)
(* A model of hue-cli.js: one invocation of the `hue` command line tool,   *)
(* from option parsing to process exit, together with the bridge it talks  *)
(* to.  JavaScript strings are sequences of one-character strings, so that *)
(* split, join, the brightness regular expression, string concatenation    *)
(* and string-to-number conversion are computed the way the program        *)
(* computes them.                                                          *)
(***************************************************************************)
EXTENDS Integers, Sequences, FiniteSets, TLC

\* ------------------------------------------------------------------ bounds

\* Number of lights the bridge may know (ids "1" .. MaxLights).
MaxLights == 2
\* Largest magnitude of a brightness expression in SpecBri.
MaxNum == 260

\* ----------------------------------------------------------------- strings

Undefined == <<>>
Truthy(s) == s /= <<>>

DigitChars == <<"0", "1", "2", "3", "4", "5", "6", "7", "8", "9">>
IsDigit(c) == \E k \in 1..10 : DigitChars[k] = c
DigitVal(c) == (CHOOSE k \in 1..10 : DigitChars[k] = c) - 1

HexChars ==
    <<"0", "1", "2", "3", "4", "5", "6", "7", "8", "9", "a", "b", "c", "d", "e", "f">>
IsHex(c) == \E k \in 1..16 : HexChars[k] = c
HexVal(c) == (CHOOSE k \in 1..16 : HexChars[k] = c) - 1

RECURSIVE SplitFrom(_, _, _)
SplitFrom(s, i, cur) ==
    IF i > Len(s) THEN <<cur>>
    ELSE IF s[i] = "," THEN <<cur>> \o SplitFrom(s, i + 1, <<>>)
    ELSE SplitFrom(s, i + 1, Append(cur, s[i]))

\* String.prototype.split(",")
Split(s) == SplitFrom(s, 1, <<>>)

RECURSIVE Join(_)
\* Array.prototype.join(","), which is also how an array is coerced to a
\* property key in config.alias[l].
Join(a) ==
    IF Len(a) = 0 THEN <<>>
    ELSE IF Len(a) = 1 THEN a[1]
    ELSE a[1] \o <<",">> \o Join(Tail(a))

RECURSIVE StrToNum(_)
\* ToNumber of a string of decimal digits (the empty string is 0).
StrToNum(s) ==
    IF Len(s) = 0 THEN 0
    ELSE 10 * StrToNum(SubSeq(s, 1, Len(s) - 1)) + DigitVal(s[Len(s)])

RECURSIVE NumToStr(_)
\* ToString of a non-negative integer.
NumToStr(n) ==
    IF n < 10 THEN <<DigitChars[n + 1]>>
    ELSE NumToStr(n \div 10) \o <<DigitChars[(n % 10) + 1]>>

\* ------------------------------------------------- brightness expressions

\* s.match(/^([-+=])([0-9]+)(%?)$/): the groups, or ok = FALSE.
BriMatch(s) ==
    LET perc == Len(s) >= 1 /\ s[Len(s)] = "%"
        last == IF perc THEN Len(s) - 1 ELSE Len(s)
        ok   == /\ last >= 2
                /\ s[1] \in {"-", "+", "="}
                /\ \A k \in 2..last : IsDigit(s[k])
    IN  IF ok THEN [ok |-> TRUE, op |-> s[1], num |-> SubSeq(s, 2, last), perc |-> perc]
        ELSE [ok |-> FALSE, op |-> "", num |-> <<>>, perc |-> FALSE]

\* Math.round(num * (254 / 100)); num, a string, is converted by `*`.
RoundPercent(num) == (StrToNum(num) * 254 + 50) \div 100

\* bri += num with bri a number and num a string: `+` concatenates.
PlusString(bri, num) == NumToStr(bri) \o num

\* bri -= num: `-` converts the string.
MinusString(bri, num) == bri - StrToNum(num)

\* The switch on op: the value of bri before the clamp, as [str, v] where a
\* string value (str = TRUE) is still to be converted by Math.max.
BriBeforeClamp(op, num, perc, bri) ==
    CASE op = "=" -> IF perc THEN [str |-> FALSE, n |-> RoundPercent(num), s |-> <<>>]
                     ELSE [str |-> TRUE, n |-> 0, s |-> num]
      [] op = "+" -> IF perc THEN [str |-> FALSE, n |-> bri + RoundPercent(num), s |-> <<>>]
                     ELSE [str |-> TRUE, n |-> 0, s |-> PlusString(bri, num)]
      [] op = "-" -> IF perc THEN [str |-> FALSE, n |-> bri - RoundPercent(num), s |-> <<>>]
                     ELSE [str |-> FALSE, n |-> MinusString(bri, num), s |-> <<>>]

Min2(a, b) == IF a < b THEN a ELSE b
Max2(a, b) == IF a > b THEN a ELSE b

\* The conversion without Math.min / Math.max: what is sent if the clamp is lost.
NoClamp(v) == IF v.str THEN StrToNum(v.s) ELSE v.n

\* Math.min(254, Math.max(1, bri)); Math.max converts a string operand.
Clamp(v) == Min2(254, Max2(1, IF v.str THEN StrToNum(v.s) ELSE v.n))

\* The {bri: ...} patch computed from the light's current brightness.
NewBri(op, num, perc, bri) == Clamp(BriBeforeClamp(op, num, perc, bri))

\* --------------------------------------------------------------- colours

NaN == -1

\* todec(h, i) = parseInt(h + "" + i, 16): the longest hexadecimal prefix.
\* A missing character reads "undefined", whose first letter is no digit.
todec(h, i) ==
    IF ~IsHex(h) THEN NaN
    ELSE IF ~IsHex(i) THEN HexVal(h)
    ELSE 16 * HexVal(h) + HexVal(i)

CharAt(s, k) == IF k <= Len(s) THEN s[k] ELSE "undefined"

hex2rgb(hex0) ==
    LET hex == IF Len(hex0) >= 1 /\ hex0[1] = "#" THEN Tail(hex0) ELSE hex0
    IN  IF Len(hex) = 3
        THEN <<todec(CharAt(hex, 1), CharAt(hex, 1)),
               todec(CharAt(hex, 2), CharAt(hex, 2)),
               todec(CharAt(hex, 3), CharAt(hex, 3))>>
        ELSE <<todec(CharAt(hex, 1), CharAt(hex, 2)),
               todec(CharAt(hex, 3), CharAt(hex, 4)),
               todec(CharAt(hex, 5), CharAt(hex, 6))>>

\* csscolors[s] || s, with the one built-in name the model's inputs use.
ColorHex(s) == IF s = <<"r", "e", "d">> THEN <<"#", "f", "f", "0", "0", "0", "0">> ELSE s

\* ------------------------------------------------------------------ tokens

K_all       == <<"a", "l", "l">>
K_on        == <<"o", "n">>
K_off       == <<"o", "f", "f">>
K_colorloop == <<"c", "o", "l", "o", "r", "l", "o", "o", "p">>
K_alert     == <<"a", "l", "e", "r", "t">>
K_clear     == <<"c", "l", "e", "a", "r">>
K_reset     == <<"r", "e", "s", "e", "t">>
K_state     == <<"s", "t", "a", "t", "e">>

\* The case labels of the shortcut switch.
Shortcuts ==
    {K_all, K_on, K_off, K_colorloop, K_alert, K_clear, K_reset, K_state}

\* Light ids are the decimal strings "1", "2", ...
LightId(n) == NumToStr(n)

\* ------------------------------------------------------------ config files

AliasName  == <<"g", "r", "p">>
AliasValue == <<"1", ",", "2">>
NoAlias    == [x \in {} |-> <<>>]

\* host is "none" (no key), "file" (the file's host) or "flag" (the -H argument).
EmptyConfig == [host |-> "none", username |-> FALSE, alias |-> NoAlias]
FullConfig  == [host |-> "file", username |-> TRUE, alias |-> (AliasName :> AliasValue)]

\* What is at the config path: nothing, a directory, a regular file whose
\* text parses as JSON (cfg) or does not, or a readable special file (a pipe
\* or device such as /dev/stdin) delivering JSON.
FileMissing == [kind |-> "missing", parses |-> FALSE, cfg |-> EmptyConfig]
FileDir     == [kind |-> "dir", parses |-> FALSE, cfg |-> EmptyConfig]
FileInvalid == [kind |-> "file", parses |-> FALSE, cfg |-> EmptyConfig]
FileEmpty   == [kind |-> "file", parses |-> TRUE, cfg |-> EmptyConfig]
FileFull    == [kind |-> "file", parses |-> TRUE, cfg |-> FullConfig]
FilePipe    == [kind |-> "special", parses |-> TRUE, cfg |-> EmptyConfig]
Files       == {FileMissing, FileDir, FileInvalid, FileEmpty, FileFull, FilePipe}

\* fs.writeFileSync(configfile, JSON.stringify(config, null, 2) + "\n"): what is
\* at the path afterwards (a special file swallows the text and stays as it is).
Written(f, cfg) ==
    IF f.kind = "special" THEN f ELSE [kind |-> "file", parses |-> TRUE, cfg |-> cfg]

\* --------------------------------------------------------------- the state

VARIABLES
    pc,          \* "getopt", "loadconfig", "command", "wait" (event loop), "exited"
    opts,        \* the option letters of process.argv, in order
    stdin,       \* "json" or "garbage": what /dev/stdin holds
    args,        \* process.argv.slice(parser.optind()); args[2] may be assigned
    args0,       \* args as given
    configfile,  \* "undefined", "explicit" (-c) or "default"
    config,
    json,
    file,        \* the file system at the config path
    stdout,
    stderr,
    exitCode,    \* -1 while the process runs
    client,      \* TRUE once Hue.createClient was called
    netCalls,    \* requests handed to the network so far
    req,         \* the command's own bridge request
    bridge,      \* the bridge's lights: id -> [on, bri]
    registered,  \* whether the bridge knows the app's username
    lights,      \* the lights object getlights passed to the handler
    l,           \* the selection
    dispatched,  \* TRUE once the action switch issued the per-light calls
    chains       \* one entry per element of l: the call chain of that element

vars ==
    <<pc, opts, stdin, args, args0, configfile, config, json, file, stdout, stderr,
      exitCode, client, netCalls, req, bridge, registered, lights, l, dispatched,
      chains>>

ioVars     == <<opts, stdin, args0>>
bridgeVars == <<bridge, registered>>
lightVars  == <<lights, l, dispatched, chains>>

\* args[k] of the JavaScript array (k = 0, 1, 2); a missing element is undefined.
Arg(a, k) == IF k + 1 <= Len(a) THEN a[k + 1] ELSE Undefined

Line(ch, id, fmt, msg) == [ch |-> ch, id |-> id, fmt |-> fmt, msg |-> msg]

NoReq == [kind |-> "none", phase |-> "none", err |-> "none"]

Cmd == IF Len(args) = 0 THEN "" ELSE args[1]

Exit(code) == pc' = "exited" /\ exitCode' = code

\* ---------------------------------------------------------- option parsing

RECURSIVE GetOpt(_, _)
\* The getopt loop: stops at the first option that exits.
GetOpt(o, st) ==
    IF Len(o) = 0 \/ st.exit /= -1 THEN st
    ELSE GetOpt(Tail(o),
           CASE Head(o) = "c" -> [st EXCEPT !.configfile = "explicit"]
             [] Head(o) = "h" -> [st EXCEPT !.exit = 0, !.out = <<"usage">>]
             [] Head(o) = "H" -> [st EXCEPT !.host = "flag"]
             [] Head(o) = "j" -> [st EXCEPT !.json = TRUE]
             [] Head(o) = "v" -> [st EXCEPT !.exit = 0, !.out = <<"version">>]
             [] OTHER         -> [st EXCEPT !.exit = 1, !.err = <<"usage">>])

ParseOptions ==
    /\ pc = "getopt"
    /\ LET st == GetOpt(opts, [configfile |-> "undefined", host |-> "none", json |-> FALSE,
                               exit |-> -1, out |-> <<>>, err |-> <<>>])
       IN  /\ configfile' = st.configfile
           /\ config' = [config EXCEPT !.host = st.host]
           /\ json' = st.json
           /\ stdout' = stdout \o [k \in 1..Len(st.out) |-> Line(0, <<>>, "text", st.out[k])]
           /\ stderr' = stderr \o [k \in 1..Len(st.err) |-> Line(0, <<>>, "text", st.err[k])]
           /\ exitCode' = st.exit
           /\ pc' = IF st.exit = -1 THEN "loadconfig" ELSE "exited"
    /\ UNCHANGED <<ioVars, args, file, client, netCalls, req, bridgeVars, lightVars>>

\* ------------------------------------------------------------- config load

\* deepmerge(readConfig, config): keys of config (set from flags) win.
deepmerge(x, y) ==
    [host     |-> IF y.host /= "none" THEN y.host ELSE x.host,
     username |-> x.username \/ y.username,
     alias    |-> x.alias]

\* fs.readFileSync + JSON.parse succeed
Readable(f) == f.kind \in {"file", "special"} /\ f.parses

\* The path the try block computes and stores before it reads the file.
ConfigPath(cf) == IF cf /= "undefined" THEN cf ELSE "default"

\* The catch block's test `if (configfile)` of the variable as it then is.
FatalOnLoadError(cf) == ConfigPath(cf) /= "undefined"

LoadConfig ==
    /\ pc = "loadconfig"
    /\ configfile' = ConfigPath(configfile)
    /\ IF Readable(file)
       THEN /\ config' = deepmerge(file.cfg, config)
            /\ pc' = "command"
            /\ UNCHANGED <<stderr, exitCode>>
       ELSE IF FatalOnLoadError(configfile)
       THEN /\ stderr' = Append(stderr, Line(0, <<>>, "text", "failed to read config"))
            /\ Exit(1)
            /\ UNCHANGED config
       ELSE /\ pc' = "command"
            /\ UNCHANGED <<config, stderr, exitCode>>
    /\ UNCHANGED <<ioVars, args, json, file, stdout, client, netCalls, req, bridgeVars,
                   lightVars>>

\* ---------------------------------------------------------------- commands

HostMissing == config.host = "none"

\* getclient() when config.host is not set
NoHost ==
    /\ stderr' = Append(stderr, Line(0, <<>>, "text", "error: host not set"))
    /\ Exit(1)
    /\ UNCHANGED <<stdout, client, netCalls, req>>

\* getclient() followed by one request of the given kind
Request(kind, out) ==
    /\ client' = TRUE
    /\ stdout' = stdout \o out
    /\ netCalls' = netCalls + 1
    /\ req' = [kind |-> kind, phase |-> "sent", err |-> "none"]
    /\ pc' = "wait"
    /\ UNCHANGED <<stderr, exitCode>>

CmdConfig ==
    /\ pc = "command" /\ Cmd = "config"
    /\ IF HostMissing THEN NoHost ELSE Request("config", <<>>)
    /\ UNCHANGED <<ioVars, args, configfile, config, json, file, bridgeVars, lightVars>>

CmdHelp ==
    /\ pc = "command" /\ Cmd = "help"
    /\ stdout' = Append(stdout, Line(0, <<>>, "text", "usage"))
    /\ pc' = "wait"
    /\ UNCHANGED <<ioVars, args, configfile, config, json, file, stderr, exitCode, client,
                   netCalls, req, bridgeVars, lightVars>>

CmdLights ==
    /\ pc = "command" /\ Cmd \in {"lights", "light", "list"}
    /\ IF HostMissing THEN NoHost ELSE Request("lights", <<>>)
    /\ UNCHANGED <<ioVars, args, configfile, config, json, file, bridgeVars, lightVars>>

\* statPath whose statSync always throws: the existence check finds nothing.
StatNoFile(f) == "none"

\* statPath(path): the kind of file, or "none" where fs.statSync throws.
statPath(f) == IF f.kind = "missing" THEN "none" ELSE f.kind

CmdRegister ==
    /\ pc = "command" /\ Cmd = "register"
    /\ IF statPath(file) = "file"
       THEN /\ stdout' = stdout \o <<Line(0, <<>>, "text", "A config file already exists"),
                                     Line(0, <<>>, "text", "please remove it")>>
            /\ Exit(1)
            /\ UNCHANGED <<stderr, client, netCalls, req>>
       ELSE IF HostMissing THEN NoHost
       ELSE Request("register", <<Line(0, <<>>, "text", "Please go and press the link button")>>)
    /\ UNCHANGED <<ioVars, args, configfile, config, json, file, bridgeVars, lightVars>>

CmdAlias ==
    /\ pc = "command" /\ Cmd = "alias"
    /\ IF Len(args) = 1
       THEN /\ stdout' = Append(stdout, Line(0, <<>>, "json", "alias"))
            /\ pc' = "wait"
            /\ UNCHANGED <<config, file, stderr, exitCode>>
       ELSE IF Len(args) = 3
       THEN /\ config' = [config EXCEPT !.alias = (args[2] :> args[3]) @@ @]
            /\ IF file.kind = "dir"
               THEN /\ stderr' = Append(stderr, Line(0, <<>>, "text", "uncaught"))
                    /\ Exit(1)
                    /\ UNCHANGED <<file, stdout>>
               ELSE /\ file' = Written(file, config')
                    /\ stdout' = Append(stdout, Line(0, <<>>, "text", "config updated"))
                    /\ pc' = "wait"
                    /\ UNCHANGED <<stderr, exitCode>>
       ELSE /\ stderr' = Append(stderr, Line(0, <<>>, "text", "wrong usage of alias"))
            /\ Exit(1)
            /\ UNCHANGED <<config, file, stdout>>
    /\ UNCHANGED <<ioVars, args, configfile, json, client, netCalls, req, bridgeVars,
                   lightVars>>

CmdSearch ==
    /\ pc = "command" /\ Cmd = "search"
    /\ netCalls' = netCalls + 1
    /\ req' = [kind |-> "search", phase |-> "sent", err |-> "none"]
    /\ pc' = "wait"
    /\ UNCHANGED <<ioVars, args, configfile, config, json, file, stdout, stderr, exitCode,
                   client, bridgeVars, lightVars>>

CmdRename ==
    /\ pc = "command" /\ Cmd = "rename"
    /\ IF HostMissing THEN NoHost ELSE Request("rename", <<>>)
    /\ UNCHANGED <<ioVars, args, configfile, config, json, file, bridgeVars, lightVars>>

CmdUnknown ==
    /\ pc = "command"
    /\ Cmd \notin {"config", "help", "lights", "light", "list", "register", "alias",
                   "search", "rename"}
    /\ stderr' = Append(stderr, Line(0, <<>>, "text", "unknown command"))
    /\ Exit(1)
    /\ UNCHANGED <<ioVars, args, configfile, config, json, file, stdout, client, netCalls,
                   req, bridgeVars, lightVars>>

\* ------------------------------------------------ the command's own request

\* The bridge (or the discovery service) answers the command's request.  A
\* lights request is authorized when the app has a username the bridge knows;
\* any request may fail for another reason.
ReqOutcomes ==
    CASE req.kind = "lights" ->
             {IF config.username /\ registered THEN "none" ELSE "unauth", "other"}
      [] req.kind = "search" -> {"none"}
      [] OTHER -> {"none", "other"}

ServeReq ==
    /\ pc = "wait" /\ req.phase = "sent"
    /\ \E e \in ReqOutcomes :
         /\ req' = [req EXCEPT !.phase = "replied", !.err = e]
         /\ lights' = IF req.kind = "lights" /\ e = "none" THEN bridge ELSE lights
         /\ registered' = IF req.kind = "register" /\ e = "none" THEN TRUE ELSE registered
    /\ UNCHANGED <<pc, ioVars, args, configfile, config, json, file, stdout, stderr,
                   exitCode, client, netCalls, bridge, l, dispatched, chains>>

ConfigCallback ==
    /\ pc = "wait" /\ req.kind = "config" /\ req.phase = "replied"
    /\ stdout' = Append(stdout, Line(0, <<>>, "json", IF req.err /= "none" THEN "err" ELSE "data"))
    /\ req' = NoReq
    /\ UNCHANGED <<pc, ioVars, args, configfile, config, json, file, stderr, exitCode,
                   client, netCalls, bridgeVars, lightVars>>

RegisterCallback ==
    /\ pc = "wait" /\ req.kind = "register" /\ req.phase = "replied"
    /\ req' = NoReq
    /\ IF req.err /= "none"
       THEN /\ stderr' = stderr \o <<Line(0, <<>>, "text", "failed to pair"),
                                     Line(0, <<>>, "text", "uncaught")>>
            /\ Exit(1)
            /\ UNCHANGED <<config, file, stdout>>
       ELSE /\ config' = [config EXCEPT !.username = TRUE]
            /\ file' = Written(file, config')
            /\ stdout' = stdout \o <<Line(0, <<>>, "text", "Hue Base Station paired!"),
                                     Line(0, <<>>, "text", "username"),
                                     Line(0, <<>>, "text", "config file written")>>
            /\ UNCHANGED <<pc, stderr, exitCode>>
    /\ UNCHANGED <<ioVars, args, configfile, json, client, netCalls, bridgeVars, lightVars>>

\* The number of stations found is the discovery's answer.
SearchCallback ==
    /\ pc = "wait" /\ req.kind = "search" /\ req.phase = "replied"
    /\ req' = NoReq
    /\ \E n \in 0..2 :
         stdout' = stdout \o
           (IF json THEN <<Line(0, <<>>, "json", "stations")>>
            ELSE IF n = 0 THEN <<Line(0, <<>>, "text", "No stations found")>>
            ELSE IF n = 1 THEN <<Line(0, <<>>, "text", "1 station found")>>
            ELSE <<Line(0, <<>>, "text", "stations found")>>
                 \o [k \in 1..n |-> Line(0, NumToStr(k), "text", "station")])
    /\ UNCHANGED <<pc, ioVars, args, configfile, config, json, file, stderr, exitCode,
                   client, netCalls, bridgeVars, lightVars>>

RenameCallback ==
    /\ pc = "wait" /\ req.kind = "rename" /\ req.phase = "replied"
    /\ req' = NoReq
    /\ stdout' = Append(stdout, Line(0, Arg(args, 1), "text",
                          IF req.err /= "none" THEN "problem renaming light"
                          ELSE "renamed"))
    /\ UNCHANGED <<pc, ioVars, args, configfile, config, json, file, stderr, exitCode,
                   client, netCalls, bridgeVars, lightVars>>

\* ----------------------------------------------------------- light selector

\* Object.keys(lights): integer-like keys in ascending order.
Keys(ls) ==
    LET n == Cardinality(DOMAIN ls)
    IN  CHOOSE s \in [1..n -> DOMAIN ls] :
          \A i, j \in 1..n : i < j => StrToNum(s[i]) < StrToNum(s[j])

\* The alias branch: config.alias && config.alias[l], l coerced by join.
AliasOf(a, alias) ==
    IF Join(a) \in DOMAIN alias /\ Truthy(alias[Join(a)]) THEN Split(alias[Join(a)]) ELSE a

\* A selector that keeps only the ids the bridge knows, instead of passing an
\* unresolved token through.
SelectionDropUnknown(a1, keys, alias) ==
    LET a == Split(a1)
    IN  IF a[1] \in Shortcuts THEN keys
        ELSE IF Join(a) \in DOMAIN alias THEN Split(alias[Join(a)])
        ELSE SelectSeq(a, LAMBDA id : \E k \in 1..Len(keys) : keys[k] = id)

\* l after the shortcut switch on l[0], for args[1] = a1.
Selection(a1, keys, alias) ==
    LET a == Split(a1)
    IN  IF a[1] \in Shortcuts THEN keys ELSE AliasOf(a, alias)

\* args after the shortcut switch: every shortcut but `all` assigns args[2].
ShortcutArgs(a) ==
    LET l0 == Split(a[2])[1]
    IN  IF l0 \in Shortcuts \ {K_all} THEN <<a[1], a[2], l0>> ELSE a

\* ------------------------------------------------------- command dispatcher

\* A state patch: on is "keep", "on" or "off"; bri = 0 keeps the brightness;
\* what names the remaining attributes; rgb is the triple of an RGB set.
Patch(on, bri, what, rgb) == [on |-> on, bri |-> bri, what |-> what, rgb |-> rgb]

SimpleActions == {K_off, K_on, K_colorloop, K_alert, K_clear, K_reset}

\* The bridge call of an action of the switch on args[2].  The JSON object
\* read from stdin for `state` is {"on": true}.
PatchOf(act) ==
    CASE act = K_off       -> Patch("off", 0, "off", <<>>)
      [] act = K_on        -> Patch("on", 0, "on", <<>>)
      [] act = K_colorloop -> Patch("keep", 0, "effect:colorloop", <<>>)
      [] act = K_alert     -> Patch("keep", 0, "alert:lselect", <<>>)
      [] act = K_clear     -> Patch("keep", 0, "effect:none,alert:none", <<>>)
      [] act = K_reset     -> Patch("on", 254, "effect:none,alert:none,ct:370", <<>>)
      [] act = K_state     -> Patch("on", 0, "stdin", <<>>)
      [] OTHER             -> Patch("keep", 0, "rgb", hex2rgb(ColorHex(act)))

NoPatch == Patch("keep", 0, "", <<>>)

\* The call chain of one element of the selection.  kind: "info" (client.light
\* and print), "bri" (client.light, client.state, client.lights) or "op" (one
\* bridge call handed callback(id), then client.lights).  pc: the request in
\* flight ("light", "mut", "patch", "lights"), its reply waiting for the
\* callback ("..._r"), or "done".  err: the reply in hand is an error.
\* operr: the err argument callback(id)'s function was called with.
\* oldbri, on: data.state.bri of the client.light reply, lights[id].state.on
\* of the client.lights reply.
NewChain(id, kind, cpc, patch) ==
    [id |-> id, kind |-> kind, pc |-> cpc, patch |-> patch, err |-> FALSE,
     operr |-> FALSE, oldbri |-> 0, on |-> FALSE]

ChainsFor(sel, kind, cpc, patch) ==
    [k \in 1..Len(sel) |-> NewChain(sel[k], kind, cpc, patch)]

\* The handler passed to getlights, for a lights object in `lights`.
LightsHandler ==
    LET keys == Keys(lights)
    IN  IF ~Truthy(Arg(args, 1))
        THEN /\ stdout' = stdout \o
                  (IF json THEN <<Line(0, <<>>, "json", "lights")>>
                   ELSE [k \in 1..Len(keys) |-> Line(0, keys[k], "text", "list")])
             /\ UNCHANGED <<pc, args, stderr, exitCode, netCalls, l, dispatched, chains>>
        ELSE
          LET sel == Selection(args[2], keys, config.alias)
              a   == ShortcutArgs(args)
              act == Arg(a, 2)
              n   == Len(sel)
              m   == BriMatch(act)
          IN  /\ l' = sel
              /\ args' = a
              /\ dispatched' = Truthy(act)
              /\ IF ~Truthy(act)
                 THEN /\ chains' = ChainsFor(sel, "info", "light", NoPatch)
                      /\ netCalls' = netCalls + n
                      /\ UNCHANGED <<pc, stdout, stderr, exitCode>>
                 ELSE IF act \in SimpleActions
                 THEN /\ chains' = ChainsFor(sel, "op", "mut", PatchOf(act))
                      /\ netCalls' = netCalls + n
                      /\ UNCHANGED <<pc, stdout, stderr, exitCode>>
                 ELSE IF act = K_state
                 THEN IF stdin = "json"
                      THEN /\ stdout' = stdout
                                \o <<Line(0, <<>>, "text", "Reading state data from stdin..."),
                                     Line(0, <<>>, "text", "State data read from stdin:")>>
                                \o [k \in 1..n |-> Line(k, sel[k], "text", "Setting state for light")]
                           /\ chains' = ChainsFor(sel, "op", "mut", PatchOf(act))
                           /\ netCalls' = netCalls + n
                           /\ UNCHANGED <<pc, stderr, exitCode>>
                      ELSE /\ stdout' = Append(stdout,
                                  Line(0, <<>>, "text", "Reading state data from stdin..."))
                           /\ stderr' = Append(stderr,
                                  Line(0, <<>>, "text", "Failed to read or parse state data"))
                           /\ Exit(1)
                           /\ UNCHANGED <<netCalls, chains>>
                 ELSE IF m.ok
                 THEN /\ chains' = ChainsFor(sel, "bri", "light", NoPatch)
                      /\ netCalls' = netCalls + n
                      /\ UNCHANGED <<pc, stdout, stderr, exitCode>>
                 ELSE /\ chains' = ChainsFor(sel, "op", "mut", PatchOf(act))
                      /\ netCalls' = netCalls + n
                      /\ UNCHANGED <<pc, stdout, stderr, exitCode>>

\* getlights' callback: the two fatal errors, else the handler.
GetLightsCallback ==
    /\ pc = "wait" /\ req.kind = "lights" /\ req.phase = "replied"
    /\ req' = NoReq
    /\ IF req.err = "unauth"
       THEN /\ stderr' = Append(stderr, Line(0, <<>>, "text", "error: application not registered"))
            /\ Exit(1)
            /\ UNCHANGED <<args, stdout, netCalls, l, dispatched, chains>>
       ELSE IF req.err = "other"
       THEN /\ stdout' = Append(stdout, Line(0, <<>>, "text", "Service unavailable."))
            /\ Exit(1)
            /\ UNCHANGED <<args, stderr, netCalls, l, dispatched, chains>>
       ELSE LightsHandler
    /\ UNCHANGED <<ioVars, configfile, config, json, file, client, bridgeVars, lights>>

\* ------------------------------------------------------------- the bridge

Known(id) == id \in DOMAIN bridge

\* The bridge's lights after a state patch (or power, or RGB) call on id.
Applied(id, p) ==
    [bridge EXCEPT ![id] = [on  |-> IF p.on = "keep" THEN @.on ELSE p.on = "on",
                            bri |-> IF p.bri = 0 THEN @.bri ELSE p.bri]]

\* The bridge answers the request chain i has in flight.  A call on an id the
\* bridge does not know is an error; any call may fail.
BridgeServe(i) ==
    /\ pc = "wait"
    /\ chains[i].pc \in {"light", "mut", "patch", "lights"}
    /\ LET c == chains[i]
       IN  \E fail \in (IF c.pc = "lights" \/ Known(c.id) THEN BOOLEAN ELSE {TRUE}) :
             /\ chains' = [chains EXCEPT ![i] =
                   [c EXCEPT !.pc = IF c.pc = "light" THEN "light_r"
                                    ELSE IF c.pc = "mut" THEN "mut_r"
                                    ELSE IF c.pc = "patch" THEN "patch_r"
                                    ELSE "lights_r",
                             !.err = fail,
                             !.oldbri = IF c.pc = "light" /\ ~fail THEN bridge[c.id].bri
                                        ELSE @,
                             !.on = IF c.pc = "lights" /\ ~fail /\ Known(c.id)
                                    THEN bridge[c.id].on ELSE @]]
             /\ bridge' = IF c.pc \in {"mut", "patch"} /\ ~fail
                          THEN Applied(c.id, c.patch) ELSE bridge
    /\ UNCHANGED <<pc, ioVars, args, configfile, config, json, file, stdout, stderr,
                   exitCode, client, netCalls, req, registered, lights, l, dispatched>>

\* ----------------------------------------------------- per-light callbacks

Done(i) == chains' = [chains EXCEPT ![i].pc = "done"]

\* An exception thrown inside a callback is not caught: the process dies.
Uncaught ==
    /\ stderr' = Append(stderr, Line(0, <<>>, "text", "uncaught"))
    /\ Exit(1)

\* The line printed for an error reply: the JSON dump of err, or the text.
ErrorLine(i, id) ==
    IF json THEN Line(i, id, "json", "err") ELSE Line(i, id, "text", "error")

\* Info query: the callback of client.light(id, ...).
InfoCallback(i) ==
    /\ pc = "wait" /\ chains[i].kind = "info" /\ chains[i].pc = "light_r"
    /\ LET c == chains[i]
       IN  stdout' = Append(stdout,
             IF json THEN Line(i, c.id, "json", IF c.err THEN "err" ELSE "data")
             ELSE IF c.err THEN Line(i, c.id, "text", "error")
             ELSE Line(i, c.id, "text", "info"))
    /\ Done(i)
    /\ UNCHANGED <<pc, ioVars, args, configfile, config, json, file, stderr, exitCode,
                   client, netCalls, req, bridgeVars, lights, l, dispatched>>

\* Brightness: the callback of client.light(id, ...), which computes the new
\* brightness from the one read and sends the patch.
BriReadCallback(i) ==
    /\ pc = "wait" /\ chains[i].kind = "bri" /\ chains[i].pc = "light_r"
    /\ LET c == chains[i]
           m == BriMatch(Arg(args, 2))
       IN  IF c.err
           THEN /\ stdout' = Append(stdout, ErrorLine(i, c.id))
                /\ Done(i)
                /\ UNCHANGED netCalls
           ELSE /\ chains' = [chains EXCEPT ![i] =
                     [c EXCEPT !.pc = "patch",
                               !.patch = Patch("keep", NewBri(m.op, m.num, m.perc, c.oldbri),
                                               "bri", <<>>)]]
                /\ netCalls' = netCalls + 1
                /\ UNCHANGED stdout
    /\ UNCHANGED <<pc, ioVars, args, configfile, config, json, file, stderr, exitCode,
                   client, req, bridgeVars, lights, l, dispatched>>

\* Brightness: the callback of client.state(id, {bri: bri}, ...).
BriPatchCallback(i) ==
    /\ pc = "wait" /\ chains[i].kind = "bri" /\ chains[i].pc = "patch_r"
    /\ LET c == chains[i]
       IN  IF json
           THEN /\ stdout' = Append(stdout, Line(i, c.id, "json", IF c.err THEN "err" ELSE "data"))
                /\ Done(i)
                /\ UNCHANGED netCalls
           ELSE IF c.err
           THEN /\ stdout' = Append(stdout, Line(i, c.id, "text", "error"))
                /\ Done(i)
                /\ UNCHANGED netCalls
           ELSE /\ chains' = [chains EXCEPT ![i].pc = "lights"]
                /\ netCalls' = netCalls + 1
                /\ UNCHANGED stdout
    /\ UNCHANGED <<pc, ioVars, args, configfile, config, json, file, stderr, exitCode,
                   client, req, bridgeVars, lights, l, dispatched>>

\* Brightness: the callback of the client.lights that follows the patch.  On
\* an error there is no lights object and lights[id] throws.
BriSummaryCallback(i) ==
    /\ pc = "wait" /\ chains[i].kind = "bri" /\ chains[i].pc = "lights_r"
    /\ LET c == chains[i]
       IN  IF c.err
           THEN /\ Uncaught
                /\ UNCHANGED <<stdout, chains>>
           ELSE /\ stdout' = Append(stdout, Line(i, c.id, "text", "Brightness Updated"))
                /\ Done(i)
                /\ UNCHANGED <<pc, stderr, exitCode>>
    /\ UNCHANGED <<ioVars, args, configfile, config, json, file, client, netCalls, req,
                   bridgeVars, lights, l, dispatched>>

\* The function callback(id) returns: called with the bridge call's err, it
\* fetches the lights; its own callback declares another err.
OpCallback(i) ==
    /\ pc = "wait" /\ chains[i].kind = "op" /\ chains[i].pc = "mut_r"
    /\ chains' = [chains EXCEPT ![i] =
          [@ EXCEPT !.pc = "lights", !.operr = chains[i].err, !.err = FALSE]]
    /\ netCalls' = netCalls + 1
    /\ UNCHANGED <<pc, ioVars, args, configfile, config, json, file, stdout, stderr,
                   exitCode, client, req, bridgeVars, lights, l, dispatched>>

\* The err the inner function of callback(id) tests: its own parameter, which
\* hides the err of the bridge call.
ReportedErr(c) == c.err

\* The message of a success line, from args[2] and lightState.on.
SuccessMessage(act, on) ==
    IF act = K_on \/ act = K_off THEN (IF on THEN "was turned on" ELSE "was turned off")
    ELSE IF act = K_reset THEN "reset to default state"
    ELSE IF act = K_colorloop THEN "color loop started"
    ELSE IF act = K_alert THEN "alert started"
    ELSE IF act = K_clear THEN "effects cleared"
    ELSE IF act = K_state THEN "state changed"
    ELSE "color changed"

\* The callback of the client.lights issued by callback(id): throw, the JSON
\* dump of err || null, the failure line, or the success line.
OpSummaryCallback(i) ==
    /\ pc = "wait" /\ chains[i].kind = "op" /\ chains[i].pc = "lights_r"
    /\ LET c == chains[i]
       IN  IF c.err
           THEN /\ Uncaught
                /\ UNCHANGED <<stdout, chains>>
           ELSE /\ IF json
                   THEN /\ stdout' = Append(stdout, Line(i, c.id, "json",
                                        IF ReportedErr(c) THEN "err" ELSE "null"))
                        /\ UNCHANGED stderr
                   ELSE IF ReportedErr(c)
                   THEN /\ stderr' = Append(stderr, Line(i, c.id, "text", "failed"))
                        /\ UNCHANGED stdout
                   ELSE /\ stdout' = Append(stdout, Line(i, c.id, "text",
                                        SuccessMessage(Arg(args, 2), c.on)))
                        /\ UNCHANGED stderr
                /\ Done(i)
                /\ UNCHANGED <<pc, exitCode>>
    /\ UNCHANGED <<ioVars, args, configfile, config, json, file, client, netCalls, req,
                   bridgeVars, lights, l, dispatched>>

\* Nothing is pending any more: the event loop ends and the process exits 0.
Finish ==
    /\ pc = "wait" /\ req.kind = "none"
    /\ \A i \in 1..Len(chains) : chains[i].pc = "done"
    /\ Exit(0)
    /\ UNCHANGED <<ioVars, args, configfile, config, json, file, stdout, stderr, client,
                   netCalls, req, bridgeVars, lightVars>>

\* ------------------------------------------------------------------ inputs

S_1   == <<"1">>
S_12  == <<"1", ",", "2">>
S_11  == <<"1", ",", "1">>
S_9   == <<"9">>
S_on1 == <<"o", "n", ",", "1">>

B_minus10 == <<"-", "1", "0">>
B_plus10  == <<"+", "1", "0">>
B_eq50p   == <<"=", "5", "0", "%">>
C_red     == <<"r", "e", "d">>
C_f00     == <<"f", "0", "0">>

\* Option lines: -c, -H, -j, -h, -v and an unknown option (-u, the update
\* check, is not among the inputs).
OptionLines ==
    {<<>>, <<"j">>, <<"c">>, <<"H">>, <<"c", "H">>, <<"h">>, <<"v">>, <<"x">>, <<"j", "h">>}

\* Command lines that exercise startup and every command.
StartupArgs ==
    {<<>>, <<"help">>, <<"config">>, <<"register">>, <<"search">>, <<"alias">>,
     <<"alias", AliasName>>, <<"alias", <<"k">>, <<"2">>>>, <<"rename", S_1, <<"n">>>>,
     <<"bogus">>, <<"list">>, <<"light", S_1, K_on>>}

ActionTokens ==
    {K_on, K_off, K_colorloop, K_alert, K_clear, K_reset, K_state,
     B_minus10, B_plus10, B_eq50p, C_red, C_f00}

LiteralSelectors == {S_1, S_12, S_11, S_9, S_on1, AliasName}
LiteralActions   == {K_on, K_state, B_minus10, B_plus10, C_red}

\* Command lines of the lights command.
LightsArgs ==
    {<<"lights">>}
    \cup {<<"lights", k>> : k \in Shortcuts}
    \cup {<<"lights", K_all, a>> : a \in ActionTokens}
    \cup {<<"lights", K_off, K_on>>}
    \cup {<<"lights", s>> : s \in LiteralSelectors}
    \cup {<<"lights", s, a>> : s \in LiteralSelectors, a \in LiteralActions}

UsesStdin(a) ==
    Len(a) >= 2 /\ (Split(a[2])[1] = K_state \/ (Len(a) = 3 /\ a[3] = K_state))

\* The bridge's lights at startup: n lights "1" .. n, all in one state.
StartBri == {100, 254}
BridgeWith(n, on, bri) ==
    [id \in {LightId(k) : k \in 1..n} |-> [on |-> on, bri |-> bri]]

InitCommon ==
    /\ pc = "getopt"
    /\ args = args0
    /\ configfile = "undefined"
    /\ config = EmptyConfig
    /\ json = FALSE
    /\ stdout = <<>>
    /\ stderr = <<>>
    /\ exitCode = -1
    /\ client = FALSE
    /\ netCalls = 0
    /\ req = NoReq
    /\ lights = BridgeWith(0, FALSE, 1)
    /\ l = <<>>
    /\ dispatched = FALSE
    /\ chains = <<>>

InitStartup ==
    /\ opts \in OptionLines
    /\ args0 \in StartupArgs
    /\ file \in Files
    /\ stdin = "json"
    /\ registered \in BOOLEAN
    /\ bridge = BridgeWith(MaxLights, FALSE, 100)

InitLights ==
    /\ opts \in {<<>>, <<"j">>}
    /\ args0 \in LightsArgs
    /\ file = FileFull
    /\ stdin \in (IF UsesStdin(args0) THEN {"json", "garbage"} ELSE {"json"})
    /\ registered = TRUE
    /\ \E n \in 0..MaxLights, on \in BOOLEAN, b \in StartBri : bridge = BridgeWith(n, on, b)

Init == (InitStartup \/ InitLights) /\ InitCommon

Next ==
    \/ ParseOptions
    \/ LoadConfig
    \/ CmdConfig
    \/ CmdHelp
    \/ CmdLights
    \/ CmdRegister
    \/ CmdAlias
    \/ CmdSearch
    \/ CmdRename
    \/ CmdUnknown
    \/ ServeReq
    \/ ConfigCallback
    \/ RegisterCallback
    \/ SearchCallback
    \/ RenameCallback
    \/ GetLightsCallback
    \/ \E i \in 1..Len(chains) : BridgeServe(i)
    \/ \E i \in 1..Len(chains) : InfoCallback(i)
    \/ \E i \in 1..Len(chains) : BriReadCallback(i)
    \/ \E i \in 1..Len(chains) : BriPatchCallback(i)
    \/ \E i \in 1..Len(chains) : BriSummaryCallback(i)
    \/ \E i \in 1..Len(chains) : OpCallback(i)
    \/ \E i \in 1..Len(chains) : OpSummaryCallback(i)
    \/ Finish

Spec == Init /\ [][Next]_vars

\* ------------------------------------------- the brightness computation alone

\* Digit strings: every magnitude up to MaxNum, and one-digit magnitudes
\* written with a leading zero.
NumStrings ==
    {NumToStr(n) : n \in 0..MaxNum} \cup {<<"0">> \o NumToStr(n) : n \in 0..9}

BriExpressions ==
    {<<op>> \o num \o pct : op \in {"=", "+", "-"}, num \in NumStrings, pct \in {<<>>, <<"%">>}}

\* `hue lights 1 <expr>` at the point where the bridge has answered the
\* client.light request with a brightness b in 1..254.
InitBri ==
    /\ pc = "wait"
    /\ opts = <<>>
    /\ stdin = "json"
    /\ args0 \in {<<"lights", S_1, e>> : e \in BriExpressions}
    /\ args = args0
    /\ configfile = "default"
    /\ config = FullConfig
    /\ json = FALSE
    /\ file = FileFull
    /\ stdout = <<>>
    /\ stderr = <<>>
    /\ exitCode = -1
    /\ client = TRUE
    /\ netCalls = 2
    /\ req = NoReq
    /\ registered = TRUE
    /\ \E b \in 1..254 :
         /\ bridge = BridgeWith(1, TRUE, b)
         /\ chains = <<[NewChain(S_1, "bri", "light_r", NoPatch) EXCEPT !.oldbri = b]>>
    /\ lights = bridge
    /\ l = <<S_1>>
    /\ dispatched = TRUE

NextBri == \E i \in 1..Len(chains) : BriReadCallback(i)

SpecBri == InitBri /\ [][NextBri]_vars

\* ------------------------------------------------------------------ claims

Range(q) == {q[k] : k \in 1..Len(q)}
HasOption(o) == \E k \in 1..Len(opts) : opts[k] = o
IsLightsCmd == Cmd \in {"lights", "light", "list"}
BriChainSent(i) == chains[i].kind = "bri" /\ chains[i].pc = "patch"

\* The brightness the usage text and the specification promise: the magnitude
\* is N, or round(N * 254 / 100) with "%"; `=` sets, `+` adds, `-` subtracts;
\* the result is clamped to 1..254.
PromisedBri(m, b) ==
    LET n   == StrToNum(m.num)
        mag == IF m.perc THEN (n * 254 + 50) \div 100 ELSE n
        v   == IF m.op = "=" THEN mag ELSE IF m.op = "+" THEN b + mag ELSE b - mag
    IN  IF v < 1 THEN 1 ELSE IF v > 254 THEN 254 ELSE v

\* C1: the patch sent for a brightness expression is {bri: clamp(v, 1, 254)}
\* with v = m, b + m or b - m for `=`, `+`, `-` and m = N or round(N*254/100).
C1_PatchIsPromisedBri ==
    \A i \in 1..Len(chains) :
        BriChainSent(i) =>
            chains[i].patch.bri = PromisedBri(BriMatch(Arg(args, 2)), chains[i].oldbri)

ConfigErrorReported ==
    \E k \in 1..Len(stderr) : stderr[k].msg = "failed to read config"

\* C2: with no -c flag and no file at the default path, startup reports no
\* config error (the command runs on the empty config); with -c naming a file
\* that cannot be read or parsed, the process reports it and exits 1 before
\* any command runs.
C2_MissingDefaultIsSilent ==
    /\ (~HasOption("c") /\ file.kind = "missing") => ~ConfigErrorReported
    /\ (configfile = "explicit" /\ ~Readable(file) /\ pc \notin {"getopt", "loadconfig"})
          => (pc = "exited" /\ exitCode = 1 /\ ~client /\ netCalls = 0
              /\ (ConfigErrorReported \/ HasOption("h") \/ HasOption("v") \/ HasOption("x")))

\* The bridge call made for element i of the selection returned an error and
\* the chain has ended.
OperationFailed(i) ==
    /\ chains[i].pc = "done"
    /\ \/ chains[i].kind = "op" /\ chains[i].operr
       \/ chains[i].kind = "bri" /\ chains[i].err

\* C3: a light whose bridge call (power, state patch, RGB set) returned an
\* error gets an error report and no success line.
C3_OperationErrorReported ==
    \A i \in 1..Len(chains) :
        OperationFailed(i)
            => /\ \E ln \in Range(stdout) \cup Range(stderr) :
                     ln.ch = i /\ ln.msg \in {"err", "error", "failed"}
               /\ \A ln \in Range(stdout) :
                     ln.ch = i => ln.msg \in {"err", "error", "Setting state for light"}

\* C4: the selection is all known lights (and the action token the keyword)
\* exactly when the comma-split selector is one shortcut keyword; a selector
\* of several elements is the selection, and the action token stays.
C4_ShortcutOnlyWhenSingle ==
    (dispatched \/ Len(chains) > 0) =>
        LET a == Split(args0[2])
        IN  IF Len(a) = 1 /\ a[1] \in Shortcuts
            THEN /\ l = Keys(lights)
                 /\ Arg(args, 2) = IF a[1] = K_all THEN Arg(args0, 2) ELSE a[1]
            ELSE Len(a) > 1 => (l = a /\ Arg(args, 2) = Arg(args0, 2))

\* C5: the bri of the patch sent for a brightness expression is in 1..254.
C5_BriInRange ==
    \A i \in 1..Len(chains) : BriChainSent(i) => chains[i].patch.bri \in 1..254

\* C5 witness: a decrement larger than the brightness read was sent as 1.
C5_Witness ==
    \E i \in 1..Len(chains) :
        LET m == BriMatch(Arg(args, 2))
        IN  /\ BriChainSent(i)
            /\ m.op = "-" /\ ~m.perc /\ StrToNum(m.num) > chains[i].oldbri
            /\ chains[i].patch.bri = 1

\* C6: when the process has ended, every element of the selection has had its
\* calls issued and its outcome reported, except the one whose own failed
\* call ended the process.
C6_OthersNotPrevented ==
    pc = "exited" =>
        \A i \in 1..Len(chains) :
            chains[i].pc = "done" \/ (chains[i].pc = "lights_r" /\ chains[i].err)

\* C7: what the lights handler (plain list, info query, every action) writes
\* to stdout is JSON with --json and is never JSON without it.
C7_OutputNotMixed ==
    IsLightsCmd =>
        \A ln \in Range(stdout) :
            ln.msg \notin {"usage", "version", "Service unavailable."}
                => (ln.fmt = "json" <=> json)

\* register is the command to run (-h and -v print and exit before any command
\* is looked at) and a regular file is at the config path.
RegisterOnExisting ==
    Cmd = "register" /\ file.kind = "file" /\ ~HasOption("h") /\ ~HasOption("v")

\* C8: while register is the command to run and a regular file is at the
\* config path, no client has been created, no network call issued, the
\* process does not end with a code other than 1, and no step changes the file.
C8_RegisterRefusesExisting ==
    /\ [](RegisterOnExisting =>
            (~client /\ netCalls = 0 /\ (pc = "exited" => exitCode = 1)))
    /\ [][RegisterOnExisting => file' = file]_vars

\* C8 witness: register found the file, said so and exited 1.
C8_Witness ==
    /\ RegisterOnExisting /\ pc = "exited" /\ exitCode = 1 /\ ~client /\ netCalls = 0
    /\ configfile \in {"default", "explicit"}
    /\ \E ln \in Range(stdout) : ln.msg = "A config file already exists"

\* A selector without commas that is neither a shortcut nor an alias name.
Unresolvable(sel) ==
    /\ Len(Split(sel)) = 1
    /\ sel \notin Shortcuts
    /\ sel \notin DOMAIN config.alias

\* C9 as claimed: at dispatch the selection is never empty, whatever lights
\* the bridge knows, and an unresolvable token is the selection's one element.
C9_SelectionNonEmpty ==
    dispatched =>
        /\ Len(l) >= 1
        /\ Unresolvable(args0[2]) => l = <<args0[2]>>

\* C9 amended: at dispatch the selection is non-empty unless the selector's
\* first element is a shortcut keyword and the bridge knows no lights; an
\* unresolvable token is the selection's one element.
C9_SelectionNonEmptyUnlessNoLights ==
    dispatched =>
        /\ (Split(args0[2])[1] \notin Shortcuts \/ DOMAIN lights /= {}) => Len(l) >= 1
        /\ (Split(args0[2])[1] \in Shortcuts /\ DOMAIN lights = {}) => Len(l) = 0
        /\ Unresolvable(args0[2]) => l = <<args0[2]>>

\* C9 witness: an action was dispatched on an id the bridge does not know.
C9_Witness ==
    /\ dispatched /\ Unresolvable(args0[2])
    /\ args0[2] \notin DOMAIN lights
    /\ l = <<args0[2]>> /\ Len(chains) = 1 /\ chains[1].id = args0[2]

\* C10: the chains of one command are on pairwise distinct ids, and a
\* brightness command that ran to its end without an error has applied its
\* update to each targeted light exactly once.
C10_DistinctIdsUpdatedOnce ==
    LET m == BriMatch(Arg(args, 2))
    IN  (/\ pc = "exited" /\ exitCode = 0 /\ dispatched /\ m.ok
         /\ \A i \in 1..Len(chains) : ~chains[i].err)
          => /\ \A i, j \in 1..Len(chains) : i /= j => chains[i].id /= chains[j].id
             /\ \A i \in 1..Len(chains) :
                   bridge[chains[i].id].bri
                       = NewBri(m.op, m.num, m.perc, lights[chains[i].id].bri)

====
